---- MODULE Spec2Model ----
(***************************************************************************)
(* The RTOS task scheduler of Part-1/Ch-2-OS-Architecture-Patterns/src/    *)
(* rtos.c: the task table, the binary-heap ready queue, the tick handler,  *)
(* blocking with timeouts and the dispatch of task bodies.                 *)
(*                                                                         *)
(* C array index i is kept as it is in the task table (a function on       *)
(* 0..num_tasks-1; an index at or above num_tasks holds NULL) and is       *)
(* shifted by one in the ready queue (a sequence, C index i at i+1).       *)
(* A TCB pointer is the index of the task in the table: a task's id is     *)
(* its index (rtos.c:144,166) and tasks are never freed while the kernel   *)
(* runs.  The TCB fields name, parameters, period and stack_pointer are    *)
(* written at creation and read by no handler; they are left out.          *)
(* The two malloc calls of rtos_create_task are taken to succeed.          *)
(* tick_count, blocked_tick and timeout are unsigned integers of TickBits   *)
(* bits: the tick count wraps to 0 and the unblock test subtracts modulo    *)
(* 2^TickBits.  run_count and total_switches stay far below the wrap        *)
(* within the bounds, so their arithmetic is that of the integers.          *)
(*                                                                         *)
(* The real-time scheduler of Part-2/Ch-6-CPU-Scheduling/src/              *)
(* realtime_scheduling_demo.c: the task set, the utilization it            *)
(* accumulates and the RMS and EDF utilization tests.  Its task table is a *)
(* sequence (C index i at i+1) of the task_count entries in use.  A double *)
(* is an IEEE-754 binary64 value: zero, NaN, or an exponent with the 53    *)
(* digits of the significand, rounded to nearest, ties to even; the        *)
(* utilizations are never negative and stay far from overflow and from the *)
(* subnormal range.  The name of a task and the text printed by            *)
(* safe_printf are left out.  A simulation is followed time step by time   *)
(* step: one action is one iteration of its loop.  A pointer to a task is  *)
(* the task's position in the sequence.  The driver offers only task sets  *)
(* for which calculate_hyperperiod stays within int.                       *)
(***************************************************************************)
EXTENDS Integers, Sequences, FiniteSets, TLC

VARIABLES
    kernel,     \* static RTOS_Kernel kernel (rtos.c:47)
    prev,       \* history: kernel as it was when the last call was made
    op,         \* history: the last call made, [name, arg]
    log,        \* history: scheduling decisions and body invocations of the last call
    calls,      \* history: the number of calls made so far
    ticks,      \* history: the number of calls of the tick handler so far
    handles,    \* history: the values rtos_create_task has returned, in call order
    invocations, \* history: how often each task's body has been invoked
    blocked_by, \* history: per task, tick and timeout of the call that blocked it
    pq,         \* a PriorityQueue exercised on its own: the tasks array below size
    pq_pool,    \* the TCBs offered to pq, in the order of their insertion
    pq_out,     \* the TCBs pq has returned, in the order of their extraction
    pq_last,    \* history: the last call on pq, its result, the size it found
    scheduler,  \* an rt_scheduler_t (realtime_scheduling_demo.c:38-47)
    rt_prev,    \* history: scheduler as it was when the last call on it was made
    rt_op,      \* history: the last call on scheduler, [name, result]
    sim,        \* the locals of simulate_rms_scheduling / simulate_edf_scheduling
                \* and whether the simulation is inside its loop
    sim_prev    \* history: sim as it was when the last call or time step began

vars == <<kernel, prev, op, log, calls, ticks, handles, invocations,
          blocked_by, pq, pq_pool, pq_out, pq_last, scheduler, rt_prev, rt_op,
          sim, sim_prev>>

-----------------------------------------------------------------------------
(* Bounds of the model *)

\* capacity of the task table; 32 in rtos.c:7, scaled so that a full table is
\* within reach of the driver
MAX_TASKS == 3

\* the driver makes at most this many calls into the kernel
MaxCalls == 6

\* the stand-alone queue is offered at most this many TCBs (below the
\* capacity of 32 that rtos.c:51 gives it)
MaxHeapItems == 4

\* the width of tick_count, blocked_tick and timeout; 32 in rtos.c:30-31,41
\* (uint32_t), scaled so that the wrap of the tick count is within reach of
\* the driver and the timeout of the example of main still fits
TickBits == 8

\* capacity of the real-time task table; 10 in realtime_scheduling_demo.c:13,
\* scaled so that a full table is within reach of the driver
MAX_RT_TASKS == 3

-----------------------------------------------------------------------------
(* Types *)

TASK_READY == "TASK_READY"
TASK_RUNNING == "TASK_RUNNING"
TASK_BLOCKED == "TASK_BLOCKED"
TASK_SUSPENDED == "TASK_SUSPENDED"

TaskState == {TASK_READY, TASK_RUNNING, TASK_BLOCKED, TASK_SUSPENDED}

NULL == -1

\* limits.h, used at realtime_scheduling_demo.c:252,271
INT_MAX == 2147483647

\* realtime_scheduling_demo.c:15
SIMULATION_TIME == 100

\* realtime_scheduling_demo.c:16
HYPERPERIOD_LIMIT == 1000

\* the values of a uint32_t are those below this modulus
UINT32_MODULUS == 2 ^ TickBits

\* A task body: it returns at once, or it calls rtos_block_task(timeout) as
\* task1, task2 and task3 do.
ReturningBody == [blocks |-> FALSE, timeout |-> 0]

BlockingBody(t) == [blocks |-> TRUE, timeout |-> t]

\* the tasks the driver creates: function, priority, deadline
TaskKinds ==
    [function : {ReturningBody}, priority : {1, 2}, deadline : {1, 2}]
    \cup {[function |-> BlockingBody(1), priority |-> 2, deadline |-> 1]}

\* the timeouts the driver passes to rtos_block_task
Timeouts == {0, 1, 2}

\* the tasks and the timeout of the example of main (rtos.c:327-329, 305)
ExampleTasks ==
    {[function |-> ReturningBody, priority |-> 1, deadline |-> 1000],
     [function |-> ReturningBody, priority |-> 3, deadline |-> 2000],
     [function |-> ReturningBody, priority |-> 2, deadline |-> 1500]}

ExampleTimeouts == {100}

\* the TCBs offered to the stand-alone queue
HeapItems == [priority : {1, 2}, deadline : {1, 2}]

-----------------------------------------------------------------------------
(* The priority queue *)

\* the loop of priority_queue_insert changed to leave the new task in the
\* last slot
SiftUp_StaysLast(T, q, i, task) == [q EXCEPT ![i + 1] = task]

\* the loop of priority_queue_insert: T maps a TCB pointer to its fields
RECURSIVE SiftUp(_, _, _, _)
SiftUp(T, q, i, task) ==
    IF i > 0
    THEN LET parent == (i - 1) \div 2
         IN  IF /\ T[q[parent + 1]].priority >= T[task].priority
                /\ T[q[parent + 1]].deadline <= T[task].deadline
             THEN [q EXCEPT ![i + 1] = task]
             ELSE SiftUp(T, [q EXCEPT ![i + 1] = q[parent + 1]], parent, task)
    ELSE [q EXCEPT ![i + 1] = task]

priority_queue_init == << >>

priority_queue_insert(T, q, task) == SiftUp(T, Append(q, task), Len(q), task)

\* the loop of priority_queue_extract; size is the decremented queue->size
RECURSIVE SiftDown(_, _, _, _, _)
SiftDown(T, q, size, i, last) ==
    IF i * 2 + 1 < size
    THEN LET left == i * 2 + 1
             right == left + 1
             highest_priority ==
                 IF /\ right < size
                    /\ \/ T[q[right + 1]].priority > T[q[left + 1]].priority
                       \/ /\ T[q[right + 1]].priority = T[q[left + 1]].priority
                          /\ T[q[right + 1]].deadline < T[q[left + 1]].deadline
                 THEN right
                 ELSE left
         IN  IF \/ T[last].priority > T[q[highest_priority + 1]].priority
                \/ /\ T[last].priority = T[q[highest_priority + 1]].priority
                   /\ T[last].deadline <= T[q[highest_priority + 1]].deadline
             THEN [at |-> i, q |-> q]
             ELSE SiftDown(T, [q EXCEPT ![i + 1] = q[highest_priority + 1]],
                           size, highest_priority, last)
    ELSE [at |-> i, q |-> q]

\* priority_queue_extract changed to return the root without removing it
priority_queue_extract_KeepsRoot(T, q) ==
    IF Len(q) = 0
    THEN [result |-> NULL, queue |-> q]
    ELSE [result |-> q[1], queue |-> q]

\* priority_queue_extract changed to leave the hole of the sift-down
\* unfilled, the last entry being dropped
priority_queue_extract_DropsLast(T, q) ==
    IF Len(q) = 0
    THEN [result |-> NULL, queue |-> q]
    ELSE LET size == Len(q) - 1
             last == q[size + 1]
             down == SiftDown(T, q, size, 0, last)
         IN  [result |-> q[1], queue |-> SubSeq(down.q, 1, size)]

\* the result and the queue left behind (the entries below the new size)
priority_queue_extract(T, q) ==
    IF Len(q) = 0
    THEN [result |-> NULL, queue |-> q]
    ELSE LET size == Len(q) - 1
             last == q[size + 1]
             down == SiftDown(T, q, size, 0, last)
             placed == IF size > 0 THEN [down.q EXCEPT ![down.at + 1] = last]
                       ELSE down.q
         IN  [result |-> q[1], queue |-> SubSeq(placed, 1, size)]

-----------------------------------------------------------------------------
(* The kernel *)

\* rtos_init: the task table is empty (every slot NULL)
rtos_init ==
    [tasks |-> << >>, num_tasks |-> 0, current_task |-> 0, tick_count |-> 0,
     scheduler_running |-> FALSE, total_switches |-> 0]

\* kernel.tasks[i], NULL above num_tasks
IsNull(K, i) == i >= K.num_tasks

Logged(K, e) == [K EXCEPT !.log = Append(@, e)]

\* rtos_create_task changed to refuse the last free slot of the table
rtos_create_task_OneSlotShort(K, function, priority, deadline) ==
    IF K.num_tasks + 1 >= MAX_TASKS
    THEN K
    ELSE LET new_task == [id |-> K.num_tasks, function |-> function,
                          priority |-> priority, deadline |-> deadline,
                          state |-> TASK_READY, blocked_tick |-> 0,
                          timeout |-> 0, run_count |-> 0]
         IN  [K EXCEPT !.tasks = K.num_tasks :> new_task @@ @,
                       !.num_tasks = @ + 1]

\* rtos_create_task changed to number the tasks from 1
rtos_create_task_IdFromOne(K, function, priority, deadline) ==
    IF K.num_tasks >= MAX_TASKS
    THEN K
    ELSE LET new_task == [id |-> K.num_tasks + 1, function |-> function,
                          priority |-> priority, deadline |-> deadline,
                          state |-> TASK_READY, blocked_tick |-> 0,
                          timeout |-> 0, run_count |-> 0]
         IN  [K EXCEPT !.tasks = K.num_tasks :> new_task @@ @,
                       !.num_tasks = @ + 1]

\* rtos_create_task changed to add the task without looking at the capacity
rtos_create_task_NoCapacityCheck(K, function, priority, deadline) ==
    LET new_task == [id |-> K.num_tasks, function |-> function,
                     priority |-> priority, deadline |-> deadline,
                     state |-> TASK_READY, blocked_tick |-> 0,
                     timeout |-> 0, run_count |-> 0]
    IN  [K EXCEPT !.tasks = K.num_tasks :> new_task @@ @,
                  !.num_tasks = @ + 1]

\* rtos_create_task: K with the new task, or K unchanged when the table is full
rtos_create_task(K, function, priority, deadline) ==
    IF K.num_tasks >= MAX_TASKS
    THEN K
    ELSE LET new_task == [id |-> K.num_tasks, function |-> function,
                          priority |-> priority, deadline |-> deadline,
                          state |-> TASK_READY, blocked_tick |-> 0,
                          timeout |-> 0, run_count |-> 0]
         IN  [K EXCEPT !.tasks = K.num_tasks :> new_task @@ @,
                       !.num_tasks = @ + 1]

\* the value rtos_create_task returns
rtos_create_task_result(K) ==
    IF K.num_tasks >= MAX_TASKS THEN NULL ELSE K.num_tasks

\* the first loop of schedule_next_task changed to queue the Running tasks
\* as well as the Ready ones
RECURSIVE AddReadyTasks_RunningToo(_, _, _)
AddReadyTasks_RunningToo(K, ready_queue, i) ==
    IF i < K.num_tasks
    THEN AddReadyTasks_RunningToo(K,
                       IF K.tasks[i].state \in {TASK_READY, TASK_RUNNING}
                       THEN priority_queue_insert(K.tasks, ready_queue, i)
                       ELSE ready_queue,
                       i + 1)
    ELSE ready_queue

\* the first loop of schedule_next_task, from index i on
RECURSIVE AddReadyTasks(_, _, _)
AddReadyTasks(K, ready_queue, i) ==
    IF i < K.num_tasks
    THEN AddReadyTasks(K,
                       IF K.tasks[i].state = TASK_READY
                       THEN priority_queue_insert(K.tasks, ready_queue, i)
                       ELSE ready_queue,
                       i + 1)
    ELSE ready_queue

ReadyTasks(K) == {i \in 0 .. K.num_tasks - 1 : K.tasks[i].state = TASK_READY}

\* schedule_next_task: the kernel afterwards and the task returned
schedule_next_task(K) ==
    LET ready_queue == AddReadyTasks(K, priority_queue_init, 0)
        extracted == priority_queue_extract(K.tasks, ready_queue)
        next_task == extracted.result
        decision == [ev |-> "decide", id |-> next_task, tasks |-> ReadyTasks(K),
                     queue |-> extracted.queue]
    IN  [next |-> next_task,
         K |-> IF next_task # NULL
               THEN Logged([K EXCEPT !.tasks[next_task].state = TASK_RUNNING,
                                     !.current_task = K.tasks[next_task].id],
                           decision)
               ELSE Logged(K, decision)]

RECURSIVE simulate_task_execution(_, _)

\* the re-scheduling of rtos_block_task changed to leave the choice of a
\* replacement to the next tick
RescheduleAfterBlock_WaitsForTick(K) == K

\* what rtos_block_task does once it has blocked the current task
RescheduleAfterBlock(K) ==
    LET s == schedule_next_task(K)
    IN  IF s.next # NULL
        THEN simulate_task_execution(
                 [s.K EXCEPT !.total_switches = @ + 1], s.next)
        ELSE s.K

\* rtos_block_task changed to leave the choice of a replacement to the
\* next tick
rtos_block_task_NoReschedule(K, timeout) ==
    IF ~IsNull(K, K.current_task)
    THEN [K EXCEPT !.tasks[K.current_task].state = TASK_BLOCKED,
                   !.tasks[K.current_task].blocked_tick = K.tick_count,
                   !.tasks[K.current_task].timeout = timeout]
    ELSE K

\* rtos_block_task changed to treat a timeout of 0 as "do not block"
rtos_block_task_ZeroNeverBlocks(K, timeout) ==
    IF ~IsNull(K, K.current_task) /\ timeout # 0
    THEN RescheduleAfterBlock(
             [K EXCEPT !.tasks[K.current_task].state = TASK_BLOCKED,
                       !.tasks[K.current_task].blocked_tick = K.tick_count,
                       !.tasks[K.current_task].timeout = timeout])
    ELSE K

\* rtos_block_task
rtos_block_task(K, timeout) ==
    IF ~IsNull(K, K.current_task)
    THEN RescheduleAfterBlock(
             [K EXCEPT !.tasks[K.current_task].state = TASK_BLOCKED,
                       !.tasks[K.current_task].blocked_tick = K.tick_count,
                       !.tasks[K.current_task].timeout = timeout])
    ELSE K

\* simulate_task_execution changed to count every invocation twice
simulate_task_execution_CountsTwice(K, task) ==
    LET counted == Logged([K EXCEPT !.tasks[task].run_count = @ + 2],
                          [ev |-> "invoke", id |-> task, tasks |-> {},
                           queue |-> << >>])
    IN  IF K.tasks[task].function.blocks
        THEN rtos_block_task(counted, K.tasks[task].function.timeout)
        ELSE counted

\* simulate_task_execution: the run count, then the task's body
simulate_task_execution(K, task) ==
    LET counted == Logged([K EXCEPT !.tasks[task].run_count = @ + 1],
                          [ev |-> "invoke", id |-> task, tasks |-> {},
                           queue |-> << >>])
    IN  IF K.tasks[task].function.blocks
        THEN rtos_block_task(counted, K.tasks[task].function.timeout)
        ELSE counted

\* the test of the unblock pass changed to wait one tick longer
TimeoutExpired_OneTickLate(tick_count, task) ==
    (tick_count - task.blocked_tick) % UINT32_MODULUS > task.timeout

\* the test of the unblock pass changed to subtract in a wider signed type
TimeoutExpired_SignedDifference(tick_count, task) ==
    tick_count - task.blocked_tick >= task.timeout

\* the test of the unblock pass (rtos.c:215): an unsigned subtraction
TimeoutExpired(tick_count, task) ==
    (tick_count - task.blocked_tick) % UINT32_MODULUS >= task.timeout

\* the unblock pass of rtos_tick_handler
UnblockPass(K) ==
    LET expired == {i \in 0 .. K.num_tasks - 1 :
                       /\ K.tasks[i].state = TASK_BLOCKED
                       /\ TimeoutExpired(K.tick_count, K.tasks[i])}
    IN  Logged([K EXCEPT !.tasks =
                    [i \in DOMAIN K.tasks |->
                        IF i \in expired
                        THEN [K.tasks[i] EXCEPT !.state = TASK_READY]
                        ELSE K.tasks[i]]],
               [ev |-> "unblock", id |-> NULL, tasks |-> expired,
                queue |-> << >>])

\* should_preempt of rtos_tick_handler
should_preempt(K, current) ==
    \E i \in 0 .. K.num_tasks - 1 :
        /\ K.tasks[i].state = TASK_READY
        /\ K.tasks[i].priority > K.tasks[current].priority

\* the scheduling step of the tick changed to count a switch whether or not
\* a task was selected
DispatchOnTick_CountsIdleSwitch(K) ==
    LET current == K.current_task
    IN  IF ~IsNull(K, current) /\ K.tasks[current].state = TASK_RUNNING
        THEN IF should_preempt(K, current)
             THEN LET s == schedule_next_task(
                               [K EXCEPT !.tasks[current].state = TASK_READY])
                  IN  simulate_task_execution(
                          [s.K EXCEPT !.total_switches = @ + 1], s.next)
             ELSE simulate_task_execution(K, current)
        ELSE LET s == schedule_next_task(K)
                 counted == [s.K EXCEPT !.total_switches = @ + 1]
             IN  IF s.next # NULL
                 THEN simulate_task_execution(counted, s.next)
                 ELSE counted

\* the scheduling step of the tick changed to stay idle when no task is
\* Running
DispatchOnTick_IdleStaysIdle(K) ==
    LET current == K.current_task
    IN  IF ~IsNull(K, current) /\ K.tasks[current].state = TASK_RUNNING
        THEN IF should_preempt(K, current)
             THEN LET s == schedule_next_task(
                               [K EXCEPT !.tasks[current].state = TASK_READY])
                  IN  IF s.next # NULL
                      THEN simulate_task_execution(
                               [s.K EXCEPT !.total_switches = @ + 1], s.next)
                      ELSE s.K
             ELSE simulate_task_execution(K, current)
        ELSE K

\* rtos_tick_handler from the preemption check on
DispatchOnTick(K) ==
    LET current == K.current_task
    IN  IF ~IsNull(K, current) /\ K.tasks[current].state = TASK_RUNNING
        THEN IF should_preempt(K, current)
             THEN LET s == schedule_next_task(
                               [K EXCEPT !.tasks[current].state = TASK_READY])
                  IN  IF s.next # NULL
                      THEN simulate_task_execution(
                               [s.K EXCEPT !.total_switches = @ + 1], s.next)
                      ELSE s.K
             ELSE simulate_task_execution(K, current)
        ELSE LET s == schedule_next_task(K)
             IN  IF s.next # NULL
                 THEN simulate_task_execution(
                          [s.K EXCEPT !.total_switches = @ + 1], s.next)
                 ELSE s.K

\* rtos_tick_handler changed to count a tick only when a task exists
rtos_tick_handler_SkipsEmptyTicks(K) ==
    DispatchOnTick(UnblockPass(
        IF K.num_tasks = 0
        THEN K
        ELSE [K EXCEPT !.tick_count = (@ + 1) % UINT32_MODULUS]))

\* rtos_tick_handler changed to run its unblock pass after the scheduling step
rtos_tick_handler_UnblocksLast(K) ==
    UnblockPass(DispatchOnTick(
        [K EXCEPT !.tick_count = (@ + 1) % UINT32_MODULUS]))

\* rtos_tick_handler
rtos_tick_handler(K) ==
    DispatchOnTick(UnblockPass(
        [K EXCEPT !.tick_count = (@ + 1) % UINT32_MODULUS]))

\* rtos_start
rtos_start(K) ==
    LET s == schedule_next_task([K EXCEPT !.scheduler_running = TRUE])
    IN  IF s.next # NULL
        THEN simulate_task_execution(s.K, s.next)
        ELSE s.K

-----------------------------------------------------------------------------
(* Doubles *)

\* the digits of a double's significand (float.h, for the type double of
\* total_utilization and utilization)
DBL_MANT_DIG == 53

Zeros(n) == [k \in 1 .. n |-> 0]

DoubleZero == [class |-> "zero", exp |-> 0, bits |-> << >>]

DoubleNaN == [class |-> "nan", exp |-> 0, bits |-> << >>]

\* the constant 1.0
DoubleOne ==
    [class |-> "normal", exp |-> 0, bits |-> <<1>> \o Zeros(DBL_MANT_DIG - 1)]

\* the double that printf's %a writes as 0x1.<hex>p<exp>, hex being thirteen
\* hexadecimal digits
HexDouble(hex, exp) ==
    [class |-> "normal", exp |-> exp,
     bits |-> [k \in 1 .. DBL_MANT_DIG |->
                  IF k = 1
                  THEN 1
                  ELSE (hex[(k - 2) \div 4 + 1] \div 2 ^ (3 - ((k - 2) % 4))) % 2]]

\* X + Y + carry for two digit strings of equal length: one digit more.  The
\* carry into a position is decided by the nearest position to its right
\* whose two digits do not just pass a carry on.
AddBits(X, Y, carry) ==
    LET L == Len(X)
        CarryInto(k) ==
            LET settled == {j \in k + 1 .. L : X[j] + Y[j] # 1}
            IN  IF settled = {}
                THEN carry
                ELSE LET j == CHOOSE n \in settled : \A m \in settled : n <= m
                     IN  (X[j] + Y[j]) \div 2
    IN  [k \in 1 .. L + 1 |->
            IF k = 1
            THEN CarryInto(0)
            ELSE (X[k - 1] + Y[k - 1] + CarryInto(k - 1)) % 2]

\* rounding to nearest, ties to even: digits starts with a 1 and has at
\* least DBL_MANT_DIG digits; more says that the exact value has non-zero
\* digits beyond them
RoundToDouble(exp, digits, more) ==
    LET keep == SubSeq(digits, 1, DBL_MANT_DIG)
        rest == SubSeq(digits, DBL_MANT_DIG + 1, Len(digits))
        guard == Len(rest) >= 1 /\ rest[1] = 1
        sticky == more \/ \E k \in 2 .. Len(rest) : rest[k] = 1
        up == guard /\ (sticky \/ keep[DBL_MANT_DIG] = 1)
        inc == AddBits(keep, Zeros(DBL_MANT_DIG), 1)
    IN  IF ~up
        THEN [class |-> "normal", exp |-> exp, bits |-> keep]
        ELSE IF inc[1] = 1
             THEN [class |-> "normal", exp |-> exp + 1,
                   bits |-> SubSeq(inc, 1, DBL_MANT_DIG)]
             ELSE [class |-> "normal", exp |-> exp, bits |-> Tail(inc)]

\* the first n binary digits of rem/den after the point, for rem < den, and
\* the remainder they leave; the digits are computed half by half, and no
\* intermediate value exceeds den
RECURSIVE DivBits(_, _, _)
DivBits(rem, den, n) ==
    IF n = 0
    THEN [bits |-> << >>, rem |-> rem]
    ELSE IF n = 1
         THEN IF rem >= den - rem
              THEN [bits |-> <<1>>, rem |-> rem - (den - rem)]
              ELSE [bits |-> <<0>>, rem |-> rem + rem]
         ELSE LET left == DivBits(rem, den, n \div 2)
                  right == DivBits(left.rem, den, n - n \div 2)
              IN  [bits |-> left.bits \o right.bits, rem |-> right.rem]

\* (double)a / b for ints a >= 0 and b > 0, scaled by 2^exp: a and b are
\* brought to b <= a < 2b, the quotient's leading 1, and DBL_MANT_DIG more
\* digits decide the rounding
RECURSIVE DoubleDivide(_, _, _)
DoubleDivide(a, b, exp) ==
    IF a = 0 THEN DoubleZero
    ELSE IF a \div 2 >= b THEN DoubleDivide(a, 2 * b, exp + 1)
    ELSE IF a >= b
         THEN LET d == DivBits(a - b, b, DBL_MANT_DIG)
              IN  RoundToDouble(exp, <<1>> \o d.bits, d.rem # 0)
         ELSE IF a >= b - a
              THEN LET d == DivBits(a - (b - a), b, DBL_MANT_DIG)
                   IN  RoundToDouble(exp - 1, <<1>> \o d.bits, d.rem # 0)
              ELSE DoubleDivide(2 * a, b, exp - 1)

\* x + y for doubles that are not negative
DoubleAdd(x, y) ==
    IF x.class = "nan" \/ y.class = "nan" THEN DoubleNaN
    ELSE IF x.class = "zero" THEN y
    ELSE IF y.class = "zero" THEN x
    ELSE LET hi == IF x.exp >= y.exp THEN x ELSE y
             lo == IF x.exp >= y.exp THEN y ELSE x
             d == hi.exp - lo.exp
             sum == AddBits(hi.bits \o Zeros(d), Zeros(d) \o lo.bits, 0)
         IN  IF sum[1] = 1
             THEN RoundToDouble(hi.exp + 1, sum, FALSE)
             ELSE RoundToDouble(hi.exp, Tail(sum), FALSE)

\* X <= Y for two digit strings of equal length: the first digit in which
\* they differ decides
BitsLeq(X, Y) ==
    LET differ == {k \in 1 .. Len(X) : X[k] # Y[k]}
    IN  \/ differ = {}
        \/ LET k == CHOOSE n \in differ : \A m \in differ : n <= m
           IN  X[k] < Y[k]

\* x <= y for doubles that are not negative; false when either is NaN
DoubleLeq(x, y) ==
    IF x.class = "nan" \/ y.class = "nan" THEN FALSE
    ELSE IF x.class = "zero" THEN TRUE
    ELSE IF y.class = "zero" THEN FALSE
    ELSE IF x.exp # y.exp THEN x.exp < y.exp
    ELSE BitsLeq(x.bits, y.bits)

-----------------------------------------------------------------------------
(* The real-time scheduler *)

\* the task sets offered to add_rt_task: period, execution time and deadline
\* (0 for the implicit deadline)
RtTaskKinds ==
    { [period |-> 28, exec_time |-> 9, deadline |-> 0],
      [period |-> 28, exec_time |-> 18, deadline |-> 0],
      [period |-> 28, exec_time |-> 1, deadline |-> 0],
      [period |-> 14, exec_time |-> 9, deadline |-> 0],
      [period |-> 2, exec_time |-> 1, deadline |-> 0],
      [period |-> 4, exec_time |-> 3, deadline |-> 3],
      [period |-> INT_MAX, exec_time |-> 1, deadline |-> 0] }

\* initialize_rt_scheduler
initialize_rt_scheduler ==
    [tasks |-> << >>,
     task_count |-> 0,
     current_time |-> 0,
     hyperperiod |-> 0,
     total_utilization |-> DoubleZero,
     total_deadline_misses |-> 0,
     total_preemptions |-> 0,
     schedulable |-> FALSE]

\* add_rt_task
add_rt_task(S, id, period, exec_time, deadline) ==
    IF S.task_count < MAX_RT_TASKS
    THEN LET task ==
                 [id |-> id,
                  period |-> period,
                  execution_time |-> exec_time,
                  deadline |-> IF deadline = 0 THEN period ELSE deadline,
                  priority |-> period,
                  utilization |-> DoubleDivide(exec_time, period, 0),
                  next_release |-> 0,
                  next_deadline |-> IF deadline = 0 THEN period ELSE deadline,
                  remaining_execution |-> 0,
                  instances_released |-> 0,
                  instances_completed |-> 0,
                  instances_missed |-> 0,
                  active |-> FALSE,
                  deadline_missed |-> FALSE]
         IN  [S EXCEPT !.tasks = Append(@, task),
                       !.total_utilization = DoubleAdd(@, task.utilization),
                       !.task_count = @ + 1]
    ELSE S

\* n * (pow(2.0, 1.0/n) - 1.0) as the build computes it: NaN for n = 0
\* (0 times infinity), and for n up to the 10 of realtime_scheduling_demo.c:13
\* the doubles that glibc's pow yields
utilization_bound(n) ==
    IF n = 0 THEN DoubleNaN
    ELSE IF n = 1 THEN DoubleOne
    ELSE HexDouble(
             << <<10, 8, 2, 7, 9, 9, 9, 15, 12, 14, 15, 3, 4>>,
                <<8, 15, 3, 13, 1, 13, 9, 5, 0, 10, 15, 4, 2>>,
                <<8, 3, 7, 15, 0, 5, 1, 8, 13, 11, 8, 10, 8>>,
                <<7, 12, 10, 10, 15, 4, 3, 4, 13, 0, 0, 9, 2>>,
                <<7, 8, 3, 4, 1, 2, 13, 5, 14, 1, 1, 0, 0>>,
                <<7, 5, 0, 14, 8, 11, 8, 15, 3, 2, 10, 13, 6>>,
                <<7, 2, 11, 8, 3, 12, 7, 13, 5, 1, 7, 11, 0>>,
                <<7, 0, 14, 10, 4, 15, 9, 4, 13, 6, 6, 11, 2>>,
                <<6, 15, 7, 10, 14, 9, 10, 14, 4, 7, 15, 13, 0>> >>[n - 1],
             -1)

\* check_rms_schedulability: the scheduler it leaves and the value it returns
check_rms_schedulability(S) ==
    [scheduler |-> S,
     result |-> DoubleLeq(S.total_utilization, utilization_bound(S.task_count))]

\* a test that records its verdict in the scheduler
check_edf_schedulability_StoresResult(S) ==
    LET result == DoubleLeq(S.total_utilization, DoubleOne)
    IN  [scheduler |-> [S EXCEPT !.schedulable = result], result |-> result]

\* check_edf_schedulability: the scheduler it leaves and the value it returns
check_edf_schedulability(S) ==
    [scheduler |-> S,
     result |-> DoubleLeq(S.total_utilization, DoubleOne)]


\* gcd
RECURSIVE gcd(_, _)
gcd(a, b) == IF b # 0 THEN gcd(b, a % b) ELSE a

\* lcm, for a product within int
lcm(a, b) == (a * b) \div gcd(a, b)

\* the loop of calculate_hyperperiod from index i on
RECURSIVE HyperperiodFrom(_, _, _)
HyperperiodFrom(S, hp, i) ==
    IF i < S.task_count
    THEN LET next == lcm(hp, S.tasks[i + 1].period)
         IN  IF next > HYPERPERIOD_LIMIT
             THEN HYPERPERIOD_LIMIT
             ELSE HyperperiodFrom(S, next, i + 1)
    ELSE hp

\* calculate_hyperperiod
calculate_hyperperiod(S) ==
    IF S.task_count = 0 THEN 0 ELSE HyperperiodFrom(S, S.tasks[1].period, 1)

\* whether the products of calculate_hyperperiod's loop stay within int,
\* from index i on
RECURSIVE HyperperiodFits(_, _, _)
HyperperiodFits(tasks, hp, i) ==
    IF i < Len(tasks)
    THEN /\ hp <= INT_MAX \div tasks[i + 1].period
         /\ LET next == lcm(hp, tasks[i + 1].period)
            IN  next > HYPERPERIOD_LIMIT \/ HyperperiodFits(tasks, next, i + 1)
    ELSE TRUE

\* reset_rt_scheduler
reset_rt_scheduler(S) ==
    [S EXCEPT !.current_time = 0,
              !.total_deadline_misses = 0,
              !.total_preemptions = 0,
              !.tasks = [i \in DOMAIN S.tasks |->
                            [S.tasks[i] EXCEPT
                                !.next_release = 0,
                                !.next_deadline = S.tasks[i].deadline,
                                !.remaining_execution = 0,
                                !.instances_released = 0,
                                !.instances_completed = 0,
                                !.instances_missed = 0,
                                !.active = FALSE,
                                !.deadline_missed = FALSE]]]

\* the tasks of which release_periodic_tasks releases an instance
Due(S) == {i \in DOMAIN S.tasks : S.current_time >= S.tasks[i].next_release}

\* the tasks whose previous instance release_periodic_tasks finds unfinished
Overrun(S) ==
    {i \in Due(S) : S.tasks[i].active /\ S.tasks[i].remaining_execution > 0}

\* release_periodic_tasks
release_periodic_tasks(S) ==
    [S EXCEPT !.total_deadline_misses = @ + Cardinality(Overrun(S)),
              !.tasks = [i \in DOMAIN S.tasks |->
                            IF i \in Due(S)
                            THEN [S.tasks[i] EXCEPT
                                     !.instances_missed =
                                         IF i \in Overrun(S) THEN @ + 1 ELSE @,
                                     !.active = TRUE,
                                     !.remaining_execution =
                                         S.tasks[i].execution_time,
                                     !.instances_released = @ + 1,
                                     !.next_release = @ + S.tasks[i].period,
                                     !.next_deadline =
                                         S.current_time + S.tasks[i].deadline,
                                     !.deadline_missed = FALSE]
                            ELSE S.tasks[i]]]

\* the tasks check_deadlines finds past their deadline for the first time
Late(S) ==
    {i \in DOMAIN S.tasks :
        /\ S.tasks[i].active
        /\ S.current_time >= S.tasks[i].next_deadline
        /\ S.tasks[i].remaining_execution > 0
        /\ ~S.tasks[i].deadline_missed}

\* check_deadlines
check_deadlines(S) ==
    [S EXCEPT !.total_deadline_misses = @ + Cardinality(Late(S)),
              !.tasks = [i \in DOMAIN S.tasks |->
                            IF i \in Late(S)
                            THEN [S.tasks[i] EXCEPT !.instances_missed = @ + 1,
                                                    !.deadline_missed = TRUE]
                            ELSE S.tasks[i]]]

\* the loop of select_rms_task from index i on
RECURSIVE SelectRmsFrom(_, _, _, _)
SelectRmsFrom(S, selected, highest_priority, i) ==
    IF i < S.task_count
    THEN LET task == S.tasks[i + 1]
         IN  IF /\ task.active
                /\ task.remaining_execution > 0
                /\ task.priority < highest_priority
             THEN SelectRmsFrom(S, i + 1, task.priority, i + 1)
             ELSE SelectRmsFrom(S, selected, highest_priority, i + 1)
    ELSE selected

\* select_rms_task
select_rms_task(S) == SelectRmsFrom(S, NULL, INT_MAX, 0)

\* the loop of select_edf_task from index i on
RECURSIVE SelectEdfFrom(_, _, _, _)
SelectEdfFrom(S, selected, earliest_deadline, i) ==
    IF i < S.task_count
    THEN LET task == S.tasks[i + 1]
         IN  IF /\ task.active
                /\ task.remaining_execution > 0
                /\ task.next_deadline < earliest_deadline
             THEN SelectEdfFrom(S, i + 1, task.next_deadline, i + 1)
             ELSE SelectEdfFrom(S, selected, earliest_deadline, i + 1)
    ELSE selected

\* a selection that prefers the latest deadline
RECURSIVE SelectLatestFrom(_, _, _, _)
SelectLatestFrom(S, selected, latest_deadline, i) ==
    IF i < S.task_count
    THEN LET task == S.tasks[i + 1]
         IN  IF /\ task.active
                /\ task.remaining_execution > 0
                /\ task.next_deadline > latest_deadline
             THEN SelectLatestFrom(S, i + 1, task.next_deadline, i + 1)
             ELSE SelectLatestFrom(S, selected, latest_deadline, i + 1)
    ELSE selected

select_edf_task_LatestDeadline(S) == SelectLatestFrom(S, NULL, -1, 0)

\* select_edf_task
select_edf_task(S) == SelectEdfFrom(S, NULL, INT_MAX, 0)

\* execute_task
execute_task(S, task) ==
    IF task # NULL /\ S.tasks[task].remaining_execution > 0
    THEN [S EXCEPT !.tasks[task] =
             IF S.tasks[task].remaining_execution = 1
             THEN [@ EXCEPT !.remaining_execution = 0,
                            !.active = FALSE,
                            !.instances_completed = @ + 1]
             ELSE [@ EXCEPT !.remaining_execution = @ - 1]]
    ELSE S

RMS_SCHEDULING == "RMS_SCHEDULING"
EDF_SCHEDULING == "EDF_SCHEDULING"

\* no simulation has been started
NoSimulation ==
    [algorithm |-> "none", in_loop |-> FALSE, simulation_end |-> 0,
     current_task |-> NULL, previous_task |-> NULL]

\* simulate_rms_scheduling / simulate_edf_scheduling up to the first test of
\* the loop condition
SimulationBegin(S, algorithm) ==
    LET reset == reset_rt_scheduler(S)
        hyperperiod == calculate_hyperperiod(reset)
        simulation_end == IF hyperperiod < SIMULATION_TIME
                          THEN hyperperiod
                          ELSE SIMULATION_TIME
    IN  [scheduler |-> [reset EXCEPT !.hyperperiod = hyperperiod,
                                     !.current_time = 0],
         sim |-> [algorithm |-> algorithm,
                  in_loop |-> 0 < simulation_end,
                  simulation_end |-> simulation_end,
                  current_task |-> NULL,
                  previous_task |-> NULL]]

\* one iteration of the loop of simulate_rms_scheduling /
\* simulate_edf_scheduling, the increment and the next test of the loop
\* condition included
SimulationStep(S, L) ==
    LET checked == check_deadlines(release_periodic_tasks(S))
        current_task == IF L.algorithm = RMS_SCHEDULING
                        THEN select_rms_task(checked)
                        ELSE select_edf_task(checked)
        counted == IF current_task # L.previous_task /\ L.previous_task # NULL
                   THEN [checked EXCEPT !.total_preemptions = @ + 1]
                   ELSE checked
        executed == IF current_task # NULL
                    THEN execute_task(counted, current_task)
                    ELSE counted
    IN  [scheduler |-> [executed EXCEPT !.current_time = @ + 1],
         sim |-> [L EXCEPT !.current_task = current_task,
                           !.previous_task = current_task,
                           !.in_loop = S.current_time + 1 < L.simulation_end]]

-----------------------------------------------------------------------------
(* The calls a driver makes *)

Entered == kernel @@ [log |-> << >>]

\* one call: its effect on the kernel and what the history records of it
Call(name, arg, after) ==
    /\ calls < MaxCalls
    /\ kernel' = [f \in DOMAIN kernel |-> after[f]]
    /\ log' = after.log
    /\ prev' = kernel
    /\ op' = [name |-> name, arg |-> arg]
    /\ calls' = calls + 1
    /\ ticks' = IF name = "tick" THEN ticks + 1 ELSE ticks
    /\ handles' = IF name = "create_task"
                  THEN Append(handles, rtos_create_task_result(Entered))
                  ELSE handles
    /\ invocations' =
           [i \in DOMAIN invocations |->
               invocations[i]
               + Cardinality({n \in 1 .. Len(after.log) :
                                 /\ after.log[n].ev = "invoke"
                                 /\ after.log[n].id = i})]
    /\ blocked_by' =
           [i \in DOMAIN blocked_by |->
               IF /\ i < after.num_tasks
                  /\ after.tasks[i].state = TASK_BLOCKED
                  /\ \/ i >= kernel.num_tasks
                     \/ kernel.tasks[i].state # TASK_BLOCKED
                     \/ \E n \in 1 .. Len(after.log) :
                            /\ after.log[n].ev = "unblock"
                            /\ i \in after.log[n].tasks
               THEN [tick |-> after.tasks[i].blocked_tick,
                     timeout |-> after.tasks[i].timeout]
               ELSE blocked_by[i]]
    /\ UNCHANGED <<pq, pq_pool, pq_out, pq_last, scheduler, rt_prev, rt_op,
                   sim, sim_prev>>

\* the argument recorded for a call that takes no timeout
NoTimeout == NULL

CreateTask(kind) ==
    Call("create_task", NoTimeout,
         rtos_create_task(Entered, kind.function, kind.priority, kind.deadline))

Start == Call("start", NoTimeout, rtos_start(Entered))

Tick == Call("tick", NoTimeout, rtos_tick_handler(Entered))

BlockTask(timeout) ==
    Call("block_current", timeout, rtos_block_task(Entered, timeout))

\* priority_queue_insert on the stand-alone queue, before any extraction
PqInsert(item) ==
    /\ Len(pq_pool) < MaxHeapItems
    /\ pq_out = << >>
    /\ pq_pool' = Append(pq_pool, item)
    /\ pq' = priority_queue_insert(pq_pool', pq, Len(pq_pool'))
    /\ pq_last' = [op |-> "insert", result |-> NULL, size |-> Len(pq)]
    /\ UNCHANGED <<kernel, prev, op, log, calls, ticks, handles, invocations,
                   blocked_by, pq_out, scheduler, rt_prev, rt_op, sim,
                   sim_prev>>

\* priority_queue_extract on the stand-alone queue; on the empty queue it
\* returns NULL
PqExtract ==
    /\ LET extracted == priority_queue_extract(pq_pool, pq)
       IN  /\ pq' = extracted.queue
           /\ pq_out' = IF extracted.result # NULL
                        THEN Append(pq_out, extracted.result)
                        ELSE pq_out
           /\ pq_last' = [op |-> "extract", result |-> extracted.result,
                          size |-> Len(pq)]
    /\ UNCHANGED <<kernel, prev, op, log, calls, ticks, handles, invocations,
                   blocked_by, pq_pool, scheduler, rt_prev, rt_op, sim,
                   sim_prev>>

\* one call on the real-time scheduler, or one time step of a simulation,
\* and what the history records of it
RtCall(name, after, result, locals) ==
    /\ scheduler' = after
    /\ rt_prev' = scheduler
    /\ rt_op' = [name |-> name, result |-> result]
    /\ sim' = locals
    /\ sim_prev' = sim
    /\ UNCHANGED <<kernel, prev, op, log, calls, ticks, handles, invocations,
                   blocked_by, pq, pq_pool, pq_out, pq_last>>

\* the value recorded for a call that returns none
NoResult == NULL

\* add_rt_task, the ids counting from 1 as in generate_rt_workload; the
\* task set is built before it is simulated
AddRtTask(kind) ==
    LET after == add_rt_task(scheduler, scheduler.task_count + 1, kind.period,
                             kind.exec_time, kind.deadline)
    IN  /\ sim.algorithm = "none"
        /\ HyperperiodFits(after.tasks, after.tasks[1].period, 1)
        /\ RtCall("add_rt_task", after, NoResult, sim)

CheckRms ==
    LET checked == check_rms_schedulability(scheduler)
    IN  /\ ~sim.in_loop
        /\ RtCall("check_rms_schedulability", checked.scheduler,
                  checked.result, sim)

CheckEdf ==
    LET checked == check_edf_schedulability(scheduler)
    IN  /\ ~sim.in_loop
        /\ RtCall("check_edf_schedulability", checked.scheduler,
                  checked.result, sim)

\* simulate_rms_scheduling or simulate_edf_scheduling is called
Simulate(algorithm) ==
    LET begun == SimulationBegin(scheduler, algorithm)
    IN  /\ ~sim.in_loop
        /\ RtCall("simulate", begun.scheduler, NoResult, begun.sim)

\* the running simulation goes through one time step
TimeStep ==
    LET stepped == SimulationStep(scheduler, sim)
    IN  /\ sim.in_loop
        /\ RtCall("time_step", stepped.scheduler, stepped.sim.current_task,
                  stepped.sim)

\* the state in which the driver finds kernel K, no call made on it yet
Fresh(K) ==
    /\ kernel = K
    /\ prev = K
    /\ op = [name |-> "init", arg |-> NoTimeout]
    /\ log = << >>
    /\ calls = 0
    /\ ticks = 0
    /\ handles = << >>
    /\ invocations = [i \in 0 .. MAX_TASKS - 1 |-> 0]
    /\ blocked_by = [i \in 0 .. MAX_TASKS - 1 |-> [tick |-> 0, timeout |-> 0]]
    /\ pq = priority_queue_init
    /\ pq_pool = << >>
    /\ pq_out = << >>
    /\ pq_last = [op |-> "init", result |-> NULL, size |-> 0]
    /\ scheduler = initialize_rt_scheduler
    /\ rt_prev = initialize_rt_scheduler
    /\ rt_op = [name |-> "initialize_rt_scheduler", result |-> NoResult]
    /\ sim = NoSimulation
    /\ sim_prev = NoSimulation

Init == Fresh(rtos_init)

\* the kernel after rtos_init and 2^TickBits - 2 ticks without a task: the
\* tick handler has counted them and found nothing to unblock or dispatch
IdleUntilWrap == [rtos_init EXCEPT !.tick_count = UINT32_MODULUS - 2]

InitWrap == Fresh(IdleUntilWrap)

Next ==
    \/ \E kind \in TaskKinds : CreateTask(kind)
    \/ Start
    \/ Tick
    \/ \E timeout \in Timeouts : BlockTask(timeout)

Spec == Init /\ [][Next]_vars

\* the driver of main: the three example tasks, blocking for 100 ticks
NextExample ==
    \/ \E kind \in ExampleTasks : CreateTask(kind)
    \/ Start
    \/ Tick
    \/ \E timeout \in ExampleTimeouts : BlockTask(timeout)

SpecExample == Init /\ [][NextExample]_vars

\* the driver of Spec, let loose two ticks before the tick count wraps
SpecWrap == InitWrap /\ [][Next]_vars

\* the queue on its own: insertions, then extractions
NextHeap ==
    \/ \E item \in HeapItems : PqInsert(item)
    \/ PqExtract

SpecHeap == Init /\ [][NextHeap]_vars

\* the real-time scheduler: a task set is added, the utilization tests run,
\* the set is simulated
NextRt ==
    \/ \E kind \in RtTaskKinds : AddRtTask(kind)
    \/ CheckRms
    \/ CheckEdf
    \/ \E algorithm \in {RMS_SCHEDULING, EDF_SCHEDULING} : Simulate(algorithm)
    \/ TimeStep

SpecRt == Init /\ [][NextRt]_vars

-----------------------------------------------------------------------------
(* Vocabulary of the properties *)

\* the ordering contract: a ranks above b
RanksAbove(a, b) ==
    \/ a.priority > b.priority
    \/ a.priority = b.priority /\ a.deadline < b.deadline

Tasks(K) == 0 .. K.num_tasks - 1

RunningTasks(K) == {i \in Tasks(K) : K.tasks[i].state = TASK_RUNNING}

\* the task on whose behalf the kernel believes it runs, when it is Running
CurrentRunning(K) ==
    {i \in Tasks(K) : i = K.current_task /\ K.tasks[i].state = TASK_RUNNING}

Events(kind) == {n \in 1 .. Len(log) : log[n].ev = kind}

\* the tasks the unblock pass of the last call moved to Ready
Unblocked == UNION {log[n].tasks : n \in Events("unblock")}

\* the tasks whose body the last call invoked
Invoked == {log[n].id : n \in Events("invoke")}

\* the tasks the scheduling decisions of the last call selected
Selected == {log[n].id : n \in Events("decide")} \ {NULL}

-----------------------------------------------------------------------------
(* Properties of the priority queue and of the scheduling decision *)

\* C1: on the stand-alone queue, filled by insertions only, the tasks
\* extracted so far come out in non-increasing priority order and, among
\* equal priorities, in non-decreasing deadline order: no task extracted
\* later ranks above one extracted earlier.
C1_HeapOrdering ==
    \A i, j \in 1 .. Len(pq_out) :
        i < j => ~RanksAbove(pq_pool[pq_out[j]], pq_pool[pq_out[i]])

\* C2: every scheduling decision of the last call that had a Ready task to
\* choose from selected a Ready task above which no other Ready task ranks.
C2_SelectsTopRanked ==
    \A n \in Events("decide") :
        log[n].tasks # {} =>
            /\ log[n].id \in log[n].tasks
            /\ \A b \in log[n].tasks :
                   ~RanksAbove(kernel.tasks[b], kernel.tasks[log[n].id])

\* C3: when a tick is handled while the current task r runs at priority P
\* and a Ready task has priority P+1, the tick's scheduling decision selects
\* a task of higher priority than r; if that task's body returns, it is the
\* current task and Running after the tick, r is Ready, and total_switches
\* has grown by exactly 1.
C3_PreemptionCorrectness ==
    op.name = "tick" =>
        \A r \in CurrentRunning(prev) :
            (\E h \in Tasks(prev) :
                /\ prev.tasks[h].state = TASK_READY
                /\ prev.tasks[h].priority = prev.tasks[r].priority + 1)
            => /\ Len(log) >= 2
               /\ log[2].ev = "decide"
               /\ log[2].id # NULL
               /\ kernel.tasks[log[2].id].priority > kernel.tasks[r].priority
               /\ ~kernel.tasks[log[2].id].function.blocks =>
                      /\ kernel.current_task = log[2].id
                      /\ kernel.tasks[log[2].id].state = TASK_RUNNING
                      /\ kernel.tasks[r].state = TASK_READY
                      /\ kernel.total_switches = prev.total_switches + 1

\* the kernel after the three tasks of the example have been created in
\* the order A, B, C
ExampleCreated ==
    LET A == rtos_create_task(rtos_init, ReturningBody, 1, 1000)
        B == rtos_create_task(A, ReturningBody, 3, 2000)
    IN  rtos_create_task(B, ReturningBody, 2, 1500)

\* the kernel after the first tick that follows
ExampleFirstTick ==
    LET after == rtos_tick_handler(ExampleCreated @@ [log |-> << >>])
    IN  [f \in DOMAIN rtos_init |-> after[f]]

\* C4: in the example (A, B, C created in this order, bodies that return),
\* the first tick selects and dispatches B (index 1) with total_switches = 1,
\* and a block_current(100) that follows it blocks B and selects C (index 2)
\* with total_switches = 2.
C4_ExampleScenario ==
    /\ (op.name = "tick" /\ prev = ExampleCreated) =>
           /\ kernel.current_task = 1
           /\ kernel.tasks[1].state = TASK_RUNNING
           /\ Invoked = {1}
           /\ kernel.total_switches = 1
    /\ (op.name = "block_current" /\ op.arg = 100
            /\ prev = ExampleFirstTick) =>
           /\ kernel.tasks[1].state = TASK_BLOCKED
           /\ kernel.current_task = 2
           /\ kernel.tasks[2].state = TASK_RUNNING
           /\ kernel.total_switches = 2

\* C5: a tick that preempts the current task r (puts it back among the Ready
\* tasks and takes a scheduling decision) never selects in its place another
\* task whose priority equals that of r.
C5_NoEqualPriorityPreemption ==
    op.name = "tick" =>
        \A r \in CurrentRunning(prev) :
            (Len(log) >= 2 /\ log[2].ev = "decide" /\ log[2].id # r) =>
                kernel.tasks[log[2].id].priority # kernel.tasks[r].priority

\* C6: at most one task is Running.
C6_AtMostOneRunning == Cardinality(RunningTasks(kernel)) <= 1

-----------------------------------------------------------------------------
(* Properties of blocking and of the tick *)

\* a call of block_current made while task i is the current task: the call
\* blocks i anew, with its own tick and timeout
BlockedAnew(i) ==
    /\ op.name = "block_current"
    /\ i = prev.current_task
    /\ kernel.tasks[i] = [prev.tasks[i] EXCEPT !.blocked_tick = prev.tick_count,
                                               !.timeout = op.arg]

C9_TickMonotonicity ==
    /\ kernel.tick_count = ticks
    /\ op.name = "tick" => kernel.tick_count = prev.tick_count + 1
    /\ op.name \in {"create_task", "start", "block_current"}
           => kernel.tick_count = prev.tick_count

\* three ticks, interleaved with other calls that created and switched tasks
C9_Witness ==
    /\ op.name = "tick"
    /\ ticks = 3
    /\ calls > ticks + 2
    /\ kernel.tick_count = 3
    /\ kernel.total_switches > 0

\* C10: a tick that finds no task Running and, after its unblock pass, no
\* task Ready changes nothing but tick_count (total_switches, current_task
\* and every field of every task are as before), selects no task and invokes
\* no body.
C10_IdempotentIdle ==
    (/\ op.name = "tick"
     /\ RunningTasks(prev) = {}
     /\ ReadyTasks(prev) = {}
     /\ Unblocked = {}) =>
        /\ kernel = [prev EXCEPT !.tick_count = @ + 1]
        /\ Invoked = {}
        /\ Selected = {}

\* an idle tick while tasks exist, all of them Blocked, after earlier switches
C10_Witness ==
    /\ op.name = "tick"
    /\ prev.num_tasks > 0
    /\ prev.total_switches > 0
    /\ RunningTasks(prev) = {}
    /\ ReadyTasks(prev) = {}
    /\ Unblocked = {}
    /\ kernel.total_switches = prev.total_switches

-----------------------------------------------------------------------------
(* Properties of the calls: their preconditions and their results *)

\* C11: a block_current call made while no task is Running changes no task
\* (state, blocked_tick and timeout included) and leaves total_switches as
\* it was.
C11_BlockNeedsRunning ==
    (op.name = "block_current" /\ RunningTasks(prev) = {}) =>
        /\ kernel.tasks = prev.tasks
        /\ kernel.total_switches = prev.total_switches

\* the value the last create_task call returned
Returned == handles[Len(handles)]

IsHandle(h) == h # NULL

\* the handles the successful create_task calls have returned, in call order
Issued == SelectSeq(handles, IsHandle)

\* C13: the k-th successful create_task call returned k-1; the task at table
\* index i has id i; and no call removes a task, changes its id or changes
\* what was given at its creation (function, priority, deadline), so a
\* handle keeps referring to the task it was issued for.
C13_StableIds ==
    /\ \A k \in 1 .. Len(Issued) : Issued[k] = k - 1
    /\ Len(Issued) = kernel.num_tasks
    /\ \A i \in Tasks(kernel) : kernel.tasks[i].id = i
    /\ \A i \in Tasks(prev) :
           /\ i \in Tasks(kernel)
           /\ kernel.tasks[i].id = prev.tasks[i].id
           /\ kernel.tasks[i].function = prev.tasks[i].function
           /\ kernel.tasks[i].priority = prev.tasks[i].priority
           /\ kernel.tasks[i].deadline = prev.tasks[i].deadline

\* the table is full, a further create_task call has failed, and tasks have
\* been switched and blocked since
C13_Witness ==
    /\ kernel.num_tasks = MAX_TASKS
    /\ Len(handles) > Len(Issued)
    /\ kernel.total_switches > 0
    /\ \E i \in Tasks(kernel) : kernel.tasks[i].state = TASK_BLOCKED

\* C14: every Blocked task has timeout > 0.
C14_BlockedHasTimeout ==
    \A i \in Tasks(kernel) :
        kernel.tasks[i].state = TASK_BLOCKED => kernel.tasks[i].timeout > 0

-----------------------------------------------------------------------------
(* Properties of the counters and of the dispatch *)

IsSelection(e) == e.ev = "decide" /\ e.id # NULL

\* the scheduling decisions of the last call that selected a task, in order
Selections == SelectSeq(log, IsSelection)

\* how many of them made current another task than the one current before
\* the decision (the Running current task at the call, then the task selected
\* by the decision before)
CurrentChanges ==
    Cardinality({n \in 1 .. Len(Selections) :
                    Selections[n].id \notin
                        (IF n = 1 THEN CurrentRunning(prev)
                                  ELSE {Selections[n - 1].id})})

\* C15: every call raises total_switches by the number of its scheduling
\* decisions that make current another task than before, the start of the
\* first task included; a decision that leaves the same task current is not
\* counted.
C15_SwitchCount ==
    kernel.total_switches = prev.total_switches + CurrentChanges

\* the number of times the last call invoked the body of task i
InvokedTimes(i) == Cardinality({n \in Events("invoke") : log[n].id = i})

\* C16: the run_count of a task equals the number of invocations of its
\* body so far and never decreases; each call raises it by the number of
\* invocations it makes; and every scheduling decision that selects a task
\* (a dispatch) is followed at once by one invocation of that task's body,
\* and by no second one.
C16_RunCount ==
    /\ \A i \in Tasks(kernel) : kernel.tasks[i].run_count = invocations[i]
    /\ \A i \in Tasks(prev) :
           /\ kernel.tasks[i].run_count >= prev.tasks[i].run_count
           /\ kernel.tasks[i].run_count
                  = prev.tasks[i].run_count + InvokedTimes(i)
    /\ \A n \in Events("decide") :
           log[n].id # NULL =>
               /\ n < Len(log)
               /\ log[n + 1].ev = "invoke"
               /\ log[n + 1].id = log[n].id
               /\ n + 2 <= Len(log) => log[n + 2].ev # "invoke"

\* a block_current call has just dispatched a task, and some task has been
\* invoked at least twice by now
C16_Witness ==
    /\ op.name = "block_current"
    /\ Selected # {}
    /\ \E i \in Tasks(kernel) :
           /\ kernel.tasks[i].run_count >= 2
           /\ invocations[i] >= 2
    /\ \E i \in Selected : kernel.tasks[i].run_count > prev.tasks[i].run_count

\* the Blocked tasks whose timeout expires at the tick that follows prev
Expiring ==
    {i \in Tasks(prev) :
        /\ prev.tasks[i].state = TASK_BLOCKED
        /\ prev.tick_count + 1 - prev.tasks[i].blocked_tick
               >= prev.tasks[i].timeout}

\* C17: a tick handled while the current task r is Running and no task that
\* is Ready after the unblock pass has a higher priority than r invokes no
\* body and leaves r (run_count and state included), current_task and
\* total_switches as they were.
C17_ContinueWithoutDispatch ==
    op.name = "tick" =>
        \A r \in CurrentRunning(prev) :
            (\A i \in ReadyTasks(prev) \cup Expiring :
                 prev.tasks[i].priority <= prev.tasks[r].priority)
            => /\ Invoked = {}
               /\ kernel.tasks[r] = prev.tasks[r]
               /\ kernel.current_task = prev.current_task
               /\ kernel.total_switches = prev.total_switches

\* C18: block_current(timeout) called while the current task r is the
\* Running task leaves tick_count as it was and r Blocked with blocked_tick =
\* tick_count and the given timeout, and takes its scheduling decision
\* within the call, among the tasks that were Ready: if there is one, the
\* task selected is one of them, its body is invoked, and (if the body
\* returns) it is Running and current with total_switches raised by 1; if
\* there is none, no body is invoked, no task is Running afterwards and
\* total_switches is as it was.
C18_BlockReschedules ==
    (op.name = "block_current" /\ RunningTasks(prev) = {prev.current_task}) =>
        LET r == prev.current_task
        IN  /\ kernel.tick_count = prev.tick_count
            /\ kernel.tasks[r].state = TASK_BLOCKED
            /\ kernel.tasks[r].blocked_tick = prev.tick_count
            /\ kernel.tasks[r].timeout = op.arg
            /\ Len(log) >= 1
            /\ log[1].ev = "decide"
            /\ log[1].tasks = ReadyTasks(prev)
            /\ IF ReadyTasks(prev) # {}
               THEN /\ log[1].id \in ReadyTasks(prev)
                    /\ Len(log) >= 2
                    /\ log[2].ev = "invoke"
                    /\ log[2].id = log[1].id
                    /\ ~kernel.tasks[log[1].id].function.blocks =>
                           /\ kernel.tasks[log[1].id].state = TASK_RUNNING
                           /\ kernel.current_task = log[1].id
                           /\ kernel.total_switches = prev.total_switches + 1
               ELSE /\ log[1].id = NULL
                    /\ Invoked = {}
                    /\ RunningTasks(kernel) = {}
                    /\ kernel.total_switches = prev.total_switches

\* block_current has just blocked the Running task at a tick after the
\* first and replaced it by a Ready task within the call
C18_Witness ==
    /\ op.name = "block_current"
    /\ op.arg > 0
    /\ RunningTasks(prev) = {prev.current_task}
    /\ prev.tick_count > 0
    /\ kernel.tasks[prev.current_task].state = TASK_BLOCKED
    /\ kernel.tasks[prev.current_task].blocked_tick = kernel.tick_count
    /\ kernel.current_task # prev.current_task
    /\ RunningTasks(kernel) = {kernel.current_task}
    /\ kernel.total_switches = prev.total_switches + 1

\* C19: in a tick, a Blocked task i whose timeout expires at this tick is
\* among the Ready tasks of the tick's own scheduling decision (the one
\* that follows the unblock pass) whenever one is taken; if the current task r is Running and i has a higher priority than
\* r, the tick preempts r (puts it back among the Ready tasks and takes a
\* scheduling decision with i among the candidates); if no task is Running,
\* the tick takes a scheduling decision with i among the candidates.
C19_UnblockFirst ==
    op.name = "tick" =>
        \A i \in Expiring :
            /\ i \in Unblocked
            /\ (Len(log) >= 2 /\ log[2].ev = "decide") => i \in log[2].tasks
            /\ \A r \in CurrentRunning(prev) :
                   prev.tasks[i].priority > prev.tasks[r].priority =>
                       /\ Len(log) >= 2
                       /\ log[2].ev = "decide"
                       /\ {i, r} \subseteq log[2].tasks
            /\ RunningTasks(prev) = {} =>
                   /\ Len(log) >= 2
                   /\ log[2].ev = "decide"
                   /\ i \in log[2].tasks

\* a task unblocked by this tick has a higher priority than the task that
\* was Running, and the tick has preempted the latter
C19_Witness ==
    /\ op.name = "tick"
    /\ \E i \in Expiring :
       \E r \in CurrentRunning(prev) :
           /\ prev.tasks[i].priority > prev.tasks[r].priority
           /\ Len(log) >= 2
           /\ log[2].ev = "decide"
           /\ {i, r} \subseteq log[2].tasks

\* C20: a tick handled while no task is Running and some task is Ready after
\* the unblock pass selects one of these, invokes its body and (if the body
\* returns) leaves it Running and current with total_switches raised by
\* exactly 1; and after every tick and every block_current call whose
\* invoked bodies all return, some task is Running whenever a task is Ready.
C20_IdleDispatch ==
    /\ (/\ op.name = "tick"
        /\ RunningTasks(prev) = {}
        /\ ReadyTasks(prev) \cup Expiring # {}) =>
           /\ Len(log) >= 3
           /\ log[2].ev = "decide"
           /\ log[2].id \in ReadyTasks(prev) \cup Expiring
           /\ log[3].ev = "invoke"
           /\ log[3].id = log[2].id
           /\ ~kernel.tasks[log[2].id].function.blocks =>
                  /\ kernel.tasks[log[2].id].state = TASK_RUNNING
                  /\ kernel.current_task = log[2].id
                  /\ kernel.total_switches = prev.total_switches + 1
    /\ (/\ op.name \in {"tick", "block_current"}
        /\ \A i \in Invoked : ~kernel.tasks[i].function.blocks) =>
           (ReadyTasks(kernel) # {} => RunningTasks(kernel) # {})

\* a tick has found every task Blocked, has unblocked some after earlier
\* switches and has dispatched one of them while another stays Ready
C20_Witness ==
    /\ op.name = "tick"
    /\ RunningTasks(prev) = {}
    /\ ReadyTasks(prev) = {}
    /\ Expiring # {}
    /\ prev.total_switches > 0
    /\ kernel.total_switches = prev.total_switches + 1
    /\ RunningTasks(kernel) # {}
    /\ ReadyTasks(kernel) # {}

-----------------------------------------------------------------------------
(* Properties of the ready queue within the scheduler *)

Range(q) == {q[n] : n \in 1 .. Len(q)}

\* the last scheduling decision of the last call
LastDecision ==
    log[CHOOSE n \in Events("decide") : \A m \in Events("decide") : m <= n]

\* C21: when a scheduling decision completes, the ready queue holds each
\* task that was Ready at the decision and was not selected exactly once,
\* and nothing else; and the queue of the last decision of a call holds
\* exactly the tasks that are Ready after the call, so that no Running and
\* no Blocked task is in it.
C21_QueueIsReadySet ==
    /\ \A n \in Events("decide") :
           /\ Range(log[n].queue) = log[n].tasks \ {log[n].id}
           /\ Len(log[n].queue) = Cardinality(Range(log[n].queue))
    /\ Events("decide") # {} =>
           /\ Range(LastDecision.queue) = ReadyTasks(kernel)
           /\ \A i \in Range(LastDecision.queue) :
                  kernel.tasks[i].state \notin {TASK_RUNNING, TASK_BLOCKED}

\* a decision has selected one of two Ready tasks while a third task was
\* Blocked, and the queue keeps the one that is still Ready
C21_Witness ==
    /\ Events("decide") # {}
    /\ LastDecision.id # NULL
    /\ Cardinality(LastDecision.tasks) = 2
    /\ Len(LastDecision.queue) = 1
    /\ kernel.tasks[LastDecision.id].state = TASK_RUNNING
    /\ \E i \in Tasks(kernel) : kernel.tasks[i].state = TASK_BLOCKED

\* the first scheduling decision of the last call
FirstDecision ==
    log[CHOOSE n \in Events("decide") : \A m \in Events("decide") : n <= m]

\* C27: the task a scheduling decision selects was Ready when the decision
\* started, and the queue the decision built held the Ready tasks of that
\* moment and no others.  The first decision of a call selects among the
\* tasks that were Ready when the call was made (for a tick: or were
\* unblocked or preempted by it; for block_current: the task it blocks
\* excepted); a later decision of the same call never selects a task an
\* earlier one selected, nor one that the call found Blocked and did not
\* unblock.
C27_SelectsLiveReady ==
    /\ \A n \in Events("decide") :
           /\ log[n].id # NULL => log[n].id \in log[n].tasks
           /\ Range(log[n].queue) \cup ({log[n].id} \ {NULL}) = log[n].tasks
           /\ log[n].id # NULL =>
                  /\ \A m \in Events("decide") : m < n => log[m].id # log[n].id
                  /\ log[n].id \in Tasks(prev) =>
                         (prev.tasks[log[n].id].state = TASK_BLOCKED
                              => log[n].id \in Unblocked)
    /\ (Events("decide") # {} /\ FirstDecision.id # NULL) =>
           /\ op.name = "start" => FirstDecision.id \in ReadyTasks(prev)
           /\ op.name = "block_current" =>
                  FirstDecision.id \in ReadyTasks(prev) \ {prev.current_task}
           /\ op.name = "tick" =>
                  FirstDecision.id
                      \in ReadyTasks(prev) \cup Expiring \cup CurrentRunning(prev)

\* a block_current call takes a decision while a task that an earlier
\* decision had selected (it has run) is Blocked: the call leaves that task
\* as it is and selects a task that was Ready
C27_Witness ==
    /\ op.name = "block_current"
    /\ Events("decide") # {}
    /\ FirstDecision.id # NULL
    /\ prev.tasks[FirstDecision.id].state = TASK_READY
    /\ \E i \in Tasks(prev) :
           /\ i # prev.current_task
           /\ prev.tasks[i].state = TASK_BLOCKED
           /\ prev.tasks[i].run_count > 0
           /\ kernel.tasks[i] = prev.tasks[i]

-----------------------------------------------------------------------------
(* Properties of the task lifecycle and of the ordering *)

\* C22: no task is ever Suspended, and between the states before and after
\* a call a task goes from Ready to Blocked only by being selected in
\* between (Ready, Running, Blocked), from Blocked to Running only by being
\* unblocked in between (Blocked, Ready, Running), and has its blocked_tick
\* or timeout changed while Blocked at both ends only by being unblocked and
\* selected in between.
C22_Lifecycle ==
    /\ \A i \in Tasks(kernel) : kernel.tasks[i].state # TASK_SUSPENDED
    /\ \A i \in Tasks(prev) :
           /\ (/\ prev.tasks[i].state = TASK_READY
               /\ kernel.tasks[i].state = TASK_BLOCKED) => i \in Selected
           /\ (/\ prev.tasks[i].state = TASK_BLOCKED
               /\ kernel.tasks[i].state = TASK_RUNNING) => i \in Unblocked
           /\ (/\ prev.tasks[i].state = TASK_BLOCKED
               /\ kernel.tasks[i].state = TASK_BLOCKED
               /\ \/ kernel.tasks[i].blocked_tick # prev.tasks[i].blocked_tick
                  \/ kernel.tasks[i].timeout # prev.tasks[i].timeout)
                  => i \in Unblocked /\ i \in Selected

SameRank(a, b) == a.priority = b.priority /\ a.deadline = b.deadline

\* C23: on the stand-alone queue, tasks of equal priority and equal
\* deadline are extracted in the order of their insertion; and a scheduling
\* decision that selects a task above which no Ready task ranks selects,
\* among the Ready tasks of the same priority and deadline, the one of the
\* lowest table index.
C23_StableTieBreak ==
    /\ \A i, j \in 1 .. Len(pq_out) :
           (i < j /\ SameRank(pq_pool[pq_out[i]], pq_pool[pq_out[j]]))
               => pq_out[i] < pq_out[j]
    /\ \A n \in Events("decide") :
           (/\ log[n].id # NULL
            /\ \A b \in log[n].tasks :
                   ~RanksAbove(kernel.tasks[b], kernel.tasks[log[n].id])) =>
               \A b \in log[n].tasks :
                   SameRank(kernel.tasks[b], kernel.tasks[log[n].id])
                       => log[n].id <= b

\* C26: after a tick whose invoked bodies all return, no Ready task has a
\* higher priority than a Running task; and a task that was Ready with a
\* priority higher than that of every other task when the tick was made is
\* Running after it.
C26_PriorityInvariant ==
    (op.name = "tick" /\ \A i \in Invoked : ~kernel.tasks[i].function.blocks) =>
        /\ \A r \in RunningTasks(kernel) :
           \A i \in ReadyTasks(kernel) :
               kernel.tasks[i].priority <= kernel.tasks[r].priority
        /\ \A h \in ReadyTasks(prev) :
               (\A i \in Tasks(prev) \ {h} :
                    prev.tasks[i].priority < prev.tasks[h].priority)
               => kernel.tasks[h].state = TASK_RUNNING

-----------------------------------------------------------------------------
(* Properties of the wakeup, of the nested dispatch and of the queue contents *)

\* the number of ticks a task blocked with this timeout waits: a timeout of
\* 0 lasts until the next tick
WaitTicks(timeout) == IF timeout > 0 THEN timeout ELSE 1

\* C28: a task is never found Blocked once tick_count has reached the tick
\* of the call that blocked it plus the timeout of that call (plus 1 for a
\* timeout of 0), whatever calls were made in between: the ticks have made
\* it Ready by then.
C28_WakeupWithinTimeout ==
    \A i \in Tasks(kernel) :
        kernel.tasks[i].state = TASK_BLOCKED =>
            kernel.tick_count
                < blocked_by[i].tick + WaitTicks(blocked_by[i].timeout)

\* C29: a tick dispatches each task at most once, hence at most num_tasks
\* tasks, also when bodies block from inside their dispatch; a task that a
\* body blocks during the tick is still Blocked when the tick ends; and the
\* tick ends with no task Running only if no task is Ready.
C29_TickTerminates ==
    op.name = "tick" =>
        /\ \A i \in Tasks(kernel) : InvokedTimes(i) <= 1
        /\ Cardinality(Events("invoke")) <= kernel.num_tasks
        /\ \A i \in Invoked :
               kernel.tasks[i].function.blocks =>
                   /\ kernel.tasks[i].state = TASK_BLOCKED
                   /\ kernel.tasks[i].blocked_tick = kernel.tick_count
        /\ RunningTasks(kernel) = {} => ReadyTasks(kernel) = {}

\* a tick has dispatched three tasks one inside the other, each body
\* blocking its task, and ends with every task Blocked
C29_Witness ==
    /\ op.name = "tick"
    /\ kernel.num_tasks = MAX_TASKS
    /\ Cardinality(Invoked) = kernel.num_tasks
    /\ \A i \in Tasks(kernel) :
           /\ kernel.tasks[i].function.blocks
           /\ kernel.tasks[i].state = TASK_BLOCKED
           /\ kernel.tasks[i].blocked_tick = kernel.tick_count
    /\ kernel.total_switches >= prev.total_switches + kernel.num_tasks

\* C30: the stand-alone queue and the tasks it has returned hold, together,
\* every inserted task exactly once; an extract from a queue that is not
\* empty returns a task, the last of the returned ones, and shrinks the
\* queue by that one entry; an extract from the empty queue (all n
\* inserted tasks having been returned by n extracts) returns NULL and
\* leaves the queue empty.
C30_HeapConservation ==
    /\ Range(pq) \cup Range(pq_out) = 1 .. Len(pq_pool)
    /\ Len(pq) + Len(pq_out) = Len(pq_pool)
    /\ pq_last.op = "extract" =>
           IF pq_last.size > 0
           THEN /\ pq_last.result # NULL
                /\ pq_last.result = pq_out[Len(pq_out)]
                /\ Len(pq) = pq_last.size - 1
           ELSE /\ pq_last.result = NULL
                /\ pq = << >>
                /\ Len(pq_out) = Len(pq_pool)

\* every task offered has been inserted and extracted, and one more extract
\* has returned NULL
C30_Witness ==
    /\ Len(pq_pool) = MaxHeapItems
    /\ Len(pq_out) = MaxHeapItems
    /\ pq_last.op = "extract"
    /\ pq_last.size = 0
    /\ pq_last.result = NULL
    /\ pq = << >>

-----------------------------------------------------------------------------
(* Properties of the queue's capacity, of single-key orderings and of       *)
(* current_task                                                              *)

\* the size the ready queue of a scheduling decision had when it was built:
\* the entries left after the extraction and the task extracted
BuiltSize(decision) ==
    Len(decision.queue) + (IF decision.id # NULL THEN 1 ELSE 0)

\* C31: the task table never holds more than MAX_TASKS tasks, and the ready
\* queue a scheduling decision builds holds at most num_tasks entries, so
\* that the highest slot insert and extract write, the one below the size
\* built, is below MAX_TASKS.
C31_QueueNeverOverflows ==
    /\ kernel.num_tasks <= MAX_TASKS
    /\ \A n \in Events("decide") :
           /\ BuiltSize(log[n]) <= kernel.num_tasks
           /\ BuiltSize(log[n]) - 1 < MAX_TASKS

\* the table is full and a decision has built a queue of all its tasks
C31_Witness ==
    /\ kernel.num_tasks = MAX_TASKS
    /\ \E n \in Events("decide") : BuiltSize(log[n]) = MAX_TASKS

\* C32: a scheduling decision whose Ready tasks all have the same deadline
\* selects one of them of maximum priority, and one whose Ready tasks all
\* have the same priority selects one of them of minimum deadline.
C32_SingleKeyOrdering ==
    \A n \in Events("decide") :
        LET ready == log[n].tasks
            T == kernel.tasks
        IN  ready # {} =>
                /\ log[n].id \in ready
                /\ (\A a, b \in ready : T[a].deadline = T[b].deadline) =>
                       \A b \in ready : T[b].priority <= T[log[n].id].priority
                /\ (\A a, b \in ready : T[a].priority = T[b].priority) =>
                       \A b \in ready : T[log[n].id].deadline <= T[b].deadline

\* a decision among three Ready tasks of one deadline and two priorities
\* has selected a task that was not the first one inserted, and one among
\* three Ready tasks of one priority and two deadlines likewise
C32_Witness ==
    \E n \in Events("decide") :
        LET ready == log[n].tasks
            T == kernel.tasks
        IN  /\ Cardinality(ready) = 3
            /\ \E i \in ready : i < log[n].id
            /\ \/ /\ \A a, b \in ready : T[a].deadline = T[b].deadline
                  /\ \E a, b \in ready : T[a].priority # T[b].priority
               \/ /\ \A a, b \in ready : T[a].priority = T[b].priority
                  /\ \E a, b \in ready : T[a].deadline # T[b].deadline

\* the ticks counted since task was blocked, as the unblock test computes them
Elapsed(tick_count, task) ==
    (tick_count - task.blocked_tick) % UINT32_MODULUS

C39_CurrentIsTheRunning ==
    kernel.num_tasks >= 1 =>
        /\ kernel.current_task < kernel.num_tasks
        /\ RunningTasks(kernel) \subseteq {kernel.current_task}

-----------------------------------------------------------------------------
(* Properties of the schedulability analysis *)

\* the exact total utilization of a task set, as a fraction num/den
RECURSIVE ExactUtilization(_)
ExactUtilization(tasks) ==
    IF tasks = << >>
    THEN [num |-> 0, den |-> 1]
    ELSE LET rest == ExactUtilization(Tail(tasks))
             task == Head(tasks)
         IN  [num |-> rest.num * task.period + task.execution_time * rest.den,
              den |-> rest.den * task.period]

\* the calls that make up the schedulability analysis
AnalysisCalls == {"check_rms_schedulability", "check_edf_schedulability"}

\* C24: check_rms_schedulability and check_edf_schedulability leave every
\* field of the scheduler and of every task as it was, and the same call
\* made again on the scheduler they leave returns the same result.
C24_AnalysisReadOnly ==
    rt_op.name \in AnalysisCalls =>
        /\ scheduler = rt_prev
        /\ rt_op.name = "check_rms_schedulability" =>
               check_rms_schedulability(scheduler) =
                   [scheduler |-> rt_prev, result |-> rt_op.result]
        /\ rt_op.name = "check_edf_schedulability" =>
               check_edf_schedulability(scheduler) =
                   [scheduler |-> rt_prev, result |-> rt_op.result]

\* the EDF test has passed a full task set that the RMS test does not pass
C24_Witness ==
    /\ rt_op.name = "check_edf_schedulability"
    /\ rt_op.result = TRUE
    /\ scheduler.task_count = MAX_RT_TASKS
    /\ ~check_rms_schedulability(scheduler).result
    /\ scheduler = rt_prev

\* C25: check_edf_schedulability returns true exactly when the total
\* utilization of the added tasks, the sum of execution_time/period, is at
\* most 1.
C25_EdfIffUtilizationAtMostOne ==
    rt_op.name = "check_edf_schedulability" =>
        LET U == ExactUtilization(scheduler.tasks)
        IN  rt_op.result <=> (U.num <= U.den)

-----------------------------------------------------------------------------
(* Properties of the simulations *)

\* the last step was a time step of the simulation of the given algorithm
Stepped(algorithm) == rt_op.name = "time_step" /\ sim.algorithm = algorithm

\* the scheduler as the selection of the last time step found it
AtSelection == check_deadlines(release_periodic_tasks(rt_prev))

\* the tasks that are active with execution remaining
Runnable(S) ==
    {i \in 1..S.task_count :
        S.tasks[i].active /\ S.tasks[i].remaining_execution > 0}

\* task i comes first among the given tasks by key, the lowest index first
\* among equal keys
FirstBy(key, i, among) ==
    /\ i \in among
    /\ \A j \in among : key[i] < key[j] \/ (key[i] = key[j] /\ i <= j)

\* C34: select_rms_task returns, among the tasks that are active with
\* remaining_execution > 0, the one with the smallest period, the lowest
\* index among equal periods, and NULL exactly when there is no such task.
C34_RmsSelectsSmallestPeriod ==
    Stepped(RMS_SCHEDULING) =>
        LET S == AtSelection
            period == [i \in 1..S.task_count |-> S.tasks[i].period]
        IN  /\ rt_op.result = NULL <=> Runnable(S) = {}
            /\ rt_op.result # NULL => FirstBy(period, rt_op.result, Runnable(S))

\* C35: select_edf_task returns, among the tasks that are active with
\* remaining_execution > 0, the one with the smallest next_deadline, the
\* lowest index among equal deadlines, and NULL exactly when there is no
\* such task.
C35_EdfSelectsEarliestDeadline ==
    Stepped(EDF_SCHEDULING) =>
        LET S == AtSelection
            next_deadline == [i \in 1..S.task_count |-> S.tasks[i].next_deadline]
        IN  /\ rt_op.result = NULL <=> Runnable(S) = {}
            /\ rt_op.result # NULL =>
                   FirstBy(next_deadline, rt_op.result, Runnable(S))

\* the last time step selected a task in place of the task of the step
\* before, which had not finished its instance
Preempted ==
    LET previous_task == sim_prev.previous_task
    IN  /\ previous_task # NULL
        /\ rt_prev.tasks[previous_task].active
        /\ rt_prev.tasks[previous_task].remaining_execution > 0
        /\ rt_op.result # NULL
        /\ rt_op.result # previous_task

\* C36: a time step increments total_preemptions exactly when the task that
\* executed in the step before still has unfinished execution and a
\* different task is selected in its place; not when that task completed
\* its instance, and not when the processor goes idle.
C36_CountsPreemptionsOnly ==
    rt_op.name = "time_step" =>
        scheduler.total_preemptions =
            rt_prev.total_preemptions + (IF Preempted THEN 1 ELSE 0)

\* every task has an implicit deadline and an execution time between 1 and
\* its period
ImplicitDeadlines(S) ==
    \A i \in 1..S.task_count :
        /\ S.tasks[i].deadline = S.tasks[i].period
        /\ 1 <= S.tasks[i].execution_time
        /\ S.tasks[i].execution_time <= S.tasks[i].period

\* simulate_edf_scheduling has returned
EdfSimulationEnded == sim.algorithm = EDF_SCHEDULING /\ ~sim.in_loop

\* C37: for a task set with implicit deadlines and 1 <= execution_time <=
\* period that check_edf_schedulability passes, simulate_edf_scheduling ends
\* with total_deadline_misses = 0 and instances_missed = 0 for every task.
C37_EdfSimulationAgreesWithTest ==
    (/\ EdfSimulationEnded
     /\ ImplicitDeadlines(scheduler)
     /\ check_edf_schedulability(scheduler).result) =>
        /\ scheduler.total_deadline_misses = 0
        /\ \A i \in 1..scheduler.task_count :
               scheduler.tasks[i].instances_missed = 0

\* an EDF simulation of a full task set of utilization 1 has ended without a
\* miss, after preemptions, every task having completed every instance
C37_Witness ==
    /\ EdfSimulationEnded
    /\ rt_op.name = "time_step"
    /\ scheduler.task_count = MAX_RT_TASKS
    /\ ImplicitDeadlines(scheduler)
    /\ check_edf_schedulability(scheduler).result
    /\ ExactUtilization(scheduler.tasks).num = ExactUtilization(scheduler.tasks).den
    /\ scheduler.total_preemptions > 0
    /\ scheduler.total_deadline_misses = 0
    /\ \A i \in 1..scheduler.task_count :
           /\ scheduler.tasks[i].instances_released >= 1
           /\ scheduler.tasks[i].instances_completed =
                  scheduler.tasks[i].instances_released

\* the sum of instances_missed over the tasks from index i on
RECURSIVE MissedFrom(_, _)
MissedFrom(S, i) ==
    IF i > S.task_count THEN 0
    ELSE S.tasks[i].instances_missed + MissedFrom(S, i + 1)

\* C38: at the end of every time step instances_missed <= instances_released
\* for every task, and total_deadline_misses is the sum of instances_missed
\* over the tasks.
C38_EachInstanceMissedOnce ==
    rt_op.name = "time_step" =>
        /\ \A i \in 1..scheduler.task_count :
               scheduler.tasks[i].instances_missed <=
                   scheduler.tasks[i].instances_released
        /\ scheduler.total_deadline_misses = MissedFrom(scheduler, 1)
====
